---- MODULE Spec2Model ----
(***************************************************************************)
(* Model of src/main.rs: the /stops.png handler of the transit board.      *)
(* One request runs handle_stops_png -> get_image -> draw_image; the       *)
(* server then waits for the next request.                                 *)
(*                                                                         *)
(* Option<T> is a sequence of length 0 (None) or 1 (Some(x)).              *)
(* A String that is drawn is a sequence of one-character strings.          *)
(* The text of an expected_arrival_time is the sequence of its fixed-width *)
(* fields <<hour, minute, second, zone>>, zone being the first byte of the *)
(* offset suffix (90 = 'Z', 43 = '+' of "+01:00"); comparing the fields    *)
(* lexicographically is comparing the text bytewise.  Instants are seconds *)
(* after 10:00:00Z.                                                        *)
(***************************************************************************)
EXTENDS Integers, Sequences, FiniteSets, TLC

\* ---------------------------------------------------------------- bounds
\* longest feed of the normalisation specification (Spec)
MaxFeed == 2
\* longest feed of the row-layout specification (SpecRows)
MaxRows == 4
\* most records of the one inbound group of the countdown specification
MaxGroup == 4
\* the wall clock when the server starts, and how often it may move
Now0 == 60
MaxTicks == 1
\* the wall clock moves by 0 or TickLen seconds between two reads
TickLen == 60
MaxClock == Now0 + MaxTicks * TickLen

\* ------------------------------------------------------ program constants
\* journeys[..journeys.len().min(3)]
Limit == 3
\* let mut y = 60.0
FirstBaseline == 60
\* y += 40.0
RowHeight == 40
\* Rect::new(0.0, 0.0, width, 30.0)
HeaderHeight == 30
\* draw_line((x1 + 10.0, y + 10.0), ...)
DividerDrop == 10
Width == 1024
Height == 758
Midpoint == 512

None == << >>
Some(x) == << x >>

\* ------------------------------------------------------------ the records
\* MonitoredVehicleJourney with its MonitoredCall flattened
Journey(stop, line, dir, dname, ddisplay, eta) ==
    [ stop_point_ref |-> stop, line_ref |-> line, direction_ref |-> dir,
      destination_name |-> dname, destination_display |-> ddisplay,
      expected_arrival_time |-> eta ]

\* ["15419", "16996", "15692", "15696"].contains(&stop.as_ref())
WatchedStops == { "15419", "16996", "15692", "15696" }

IsWatchedAny(stop) == TRUE

IsWatched(stop) == stop \in WatchedStops

\* the three let-else of the grouping loop
HasKey(j) ==
    /\ j.line_ref # None
    /\ j.direction_ref # None
    /\ j.destination_display # None

\* (direction, (line, destination)): the two nested map keys as one triple
KeyOf(j) == << j.direction_ref[1], j.line_ref[1], j.destination_display[1] >>

\* ------------------------------------------------------- time and strings
RECURSIVE StrLess(_, _)
\* str's Ord: bytewise lexicographic, a proper prefix is smaller
StrLess(a, b) ==
    IF b = << >> THEN FALSE
    ELSE IF a = << >> THEN TRUE
    ELSE IF Head(a) # Head(b) THEN Head(a) < Head(b)
    ELSE StrLess(Tail(a), Tail(b))

\* Option<String>'s derived Ord: None < Some(_), Some by the strings
KeyLess(a, b) ==
    IF a = None THEN b # None
    ELSE b # None /\ StrLess(a[1], b[1])

\* time_str.parse::<DateTime<Utc>>() succeeds
ParseOk(txt) ==
    /\ Len(txt) = 4
    /\ txt[1] \in 0..23 /\ txt[2] \in 0..59 /\ txt[3] \in 0..59
    /\ txt[4] \in {43, 90}

\* the parsed instant, converted to UTC
Parse(txt) ==
    (txt[1] - 10) * 3600 + txt[2] * 60 + txt[3]
        - (IF txt[4] = 43 THEN 3600 ELSE 0)

\* Duration::num_minutes: whole minutes, truncated toward zero
NumMinutes(secs) == IF secs >= 0 THEN secs \div 60 ELSE -((-secs) \div 60)

Digit(d) == << "0", "1", "2", "3", "4", "5", "6", "7", "8", "9" >>[d + 1]

RECURSIVE DecimalNat(_)
DecimalNat(n) ==
    IF n < 10 THEN << Digit(n) >>
    ELSE DecimalNat(n \div 10) \o << Digit(n % 10) >>

\* format!("{}", n) of an i64
Decimal(n) == IF n < 0 THEN << "-" >> \o DecimalNat(-n) ELSE DecimalNat(n)

\* String::pop: removes the last char, nothing on an empty string
Pop(s) == IF s = << >> THEN s ELSE SubSeq(s, 1, Len(s) - 1)

Separator == << ",", " " >>
Suffix == << " ", "m", "i", "n" >>

\* ------------------------------------------------------------------ sort
RECURSIVE InsertSorted(_, _)
\* insert j behind every element whose key is not greater (stable)
InsertSorted(s, j) ==
    IF s = << >> THEN << j >>
    ELSE IF KeyLess(j.expected_arrival_time, Head(s).expected_arrival_time)
         THEN << j >> \o s
         ELSE << Head(s) >> \o InsertSorted(Tail(s), j)

RECURSIVE SortByKey(_)
\* journeys.sort_by_key(|j| j.monitored_call.expected_arrival_time.clone())
SortByKey(s) ==
    IF s = << >> THEN << >>
    ELSE InsertSorted(SortByKey(SubSeq(s, 1, Len(s) - 1)), s[Len(s)])

\* ------------------------------------------------------------- the state
VARIABLES
    pc,                    \* position of the handler; "idle" between requests
    feed,                  \* monitored_stop_visit of the decoded response
    journeys_i_care_about,
    directions_to_lines_destinations_to_journeys,
    column,                \* the direction draw_times is called for
    pending,               \* keys the map iterator has not yet yielded
    cur,                   \* the key of the row being drawn
    idx,                   \* position of the inner loop in journeys[..]
    times_str,
    listed,                \* the arrivals pushed into times_str (history)
    y,
    canvas,                \* header band and the rows drawn, per column
    clock,                 \* Utc::now()
    now,                   \* the clock when the request came in (history)
    result,                \* what get_image returned
    response,              \* what the client of the last request got
    prev                   \* row keys of the last image served (history)

vars == << pc, feed, journeys_i_care_about,
           directions_to_lines_destinations_to_journeys, column, pending, cur,
           idx, times_str, listed, y, canvas, clock, now, result, response,
           prev >>

groups == directions_to_lines_destinations_to_journeys

Directions == { k[1] : k \in DOMAIN groups }

\* directions_to_lines_destinations_to_journeys[dir]: the keys of one bucket
KeysOf(dir) == { k \in DOMAIN groups : k[1] = dir }

EmptyCanvas == [ header |-> None, midline |-> None, IB |-> << >>, OB |-> << >> ]

RECURSIVE Reverse(_)
Reverse(s) == IF s = << >> THEN << >> ELSE Reverse(Tail(s)) \o << Head(s) >>

SeqsUpTo(S, n) == UNION { [1..k -> S] : k \in 0..n }

\* -------------------------------------------------------------- the feeds
Eta(h, m, s, z) == Some(<< h, m, s, z >>)

\* Spec: every combination of watched/unwatched stop and present/absent field
FeedRecords ==
    { Journey(stop, line, dir, dname, ddisplay, Eta(10, 3, 0, 90)) :
        stop \in { "15419", "99999" }, line \in { None, Some("N") },
        dir \in { None, Some("IB"), Some("OB") },
        dname \in { None, Some("Caltrain") },
        ddisplay \in { None, Some("Caltrain") } }

\* SpecRows: complete records of watched stops without an arrival time,
\* three lines inbound and two outbound
RowRecords ==
    { Journey("15419", Some(line), Some("IB"), Some("Caltrain"),
              Some("Caltrain"), None) : line \in { "J", "K", "N" } }
    \cup { Journey("15696", Some(line), Some("OB"), Some("Ocean Beach"),
                   Some("Ocean Beach"), None) : line \in { "J", "N" } }

\* SpecTimes: one inbound group; absent, unparseable, expired, due now,
\* future and offset-bearing arrival times
EtaTexts ==
    { None, Some(<< 103 >>), Eta(10, 0, 0, 90), Eta(10, 1, 0, 90),
      Eta(10, 3, 0, 90), Eta(10, 10, 0, 90), Eta(11, 2, 0, 43) }

TimeRecords ==
    { Journey("15419", Some("N"), Some("IB"), Some("Caltrain"),
              Some("Caltrain"), eta) : eta \in EtaTexts }
    \cup { Journey("16996", Some("N"), Some("IB"), Some("Caltrain"),
                   Some("Caltrain"), None) }

OutboundRecord ==
    Journey("15692", Some("N"), Some("OB"), Some("Ocean Beach"),
            Some("Ocean Beach"), Eta(10, 10, 0, 90))

\* ------------------------------------------------------------------- Init
InitWith(feeds) ==
    /\ feed \in feeds
    /\ pc = "idle"
    /\ journeys_i_care_about = << >>
    /\ directions_to_lines_destinations_to_journeys = << >>
    /\ column = "IB"
    /\ pending = {}
    /\ cur = None
    /\ idx = 1
    /\ times_str = << >>
    /\ listed = << >>
    /\ y = 0
    /\ canvas = EmptyCanvas
    /\ clock = Now0
    /\ now = Now0
    /\ result = "none"
    /\ response = "none"
    /\ prev = None

Init == InitWith(SeqsUpTo(FeedRecords, MaxFeed))

InitRows == InitWith(SeqsUpTo(RowRecords, MaxRows))

InitTimes ==
    InitWith({ pre \o g : pre \in { << >>, << OutboundRecord >> },
                          g \in SeqsUpTo(TimeRecords, MaxGroup) })

\* ---------------------------------------------------------------- actions
\* Utc::now(): the clock has moved by 0 or TickLen since the last read
Ticks == { d \in { 0, TickLen } : clock + d <= MaxClock }

\* the upstream returns the same records again, in the same or reverse order
Refetch == { feed, Reverse(feed) }

\* handle_stops_png is called; get_image fetches and decodes the response,
\* which fails (send, text or from_str return an error) or yields the feed
Request ==
    /\ pc = "idle"
    /\ \E f \in Refetch, ok \in BOOLEAN :
          /\ feed' = f
          /\ IF ok
             THEN pc' = "filter" /\ result' = "none"
             ELSE pc' = "respond" /\ result' = "ErrFetch"
    /\ now' = clock
    /\ response' = "none"
    /\ UNCHANGED << journeys_i_care_about,
                    directions_to_lines_destinations_to_journeys, column,
                    pending, cur, idx, times_str, listed, y, canvas, clock,
                    prev >>

\* the loop that keeps the journeys of the watched stops
Filter ==
    /\ pc = "filter"
    /\ journeys_i_care_about' =
          SelectSeq(feed, LAMBDA j : IsWatched(j.stop_point_ref))
    /\ pc' = "group"
    /\ UNCHANGED << feed, directions_to_lines_destinations_to_journeys,
                    column, pending, cur, idx, times_str, listed, y, canvas,
                    clock, now, result, response, prev >>

\* the loop that pushes every journey with a key into its bucket, in order
GroupBy(js) ==
    [ k \in { KeyOf(j) : j \in { js[i] : i \in { n \in 1..Len(js) : HasKey(js[n]) } } }
        |-> SelectSeq(js, LAMBDA j : HasKey(j) /\ KeyOf(j) = k) ]

Group ==
    /\ pc = "group"
    /\ directions_to_lines_destinations_to_journeys' =
          GroupBy(journeys_i_care_about)
    /\ pc' = "sort"
    /\ UNCHANGED << feed, journeys_i_care_about, column, pending, cur,
                    idx, times_str, listed, y, canvas, clock, now, result,
                    response, prev >>

\* the loop that sorts the journeys of every bucket
SortGroups ==
    /\ pc = "sort"
    /\ directions_to_lines_destinations_to_journeys' =
          [ k \in DOMAIN groups |-> SortByKey(groups[k]) ]
    /\ pc' = "setup"
    /\ UNCHANGED << feed, journeys_i_care_about, column, pending, cur,
                    idx, times_str, listed, y, canvas, clock, now, result,
                    response, prev >>

\* draw_image up to the two lookups of the direction buckets: set_info and
\* the canvas return an error, the font lookup and a missing bucket panic
DrawSetup ==
    /\ pc = "setup"
    /\ \E backend \in { "ok", "set_info", "canvas", "font" } :
          result' =
             IF backend \in { "set_info", "canvas" } THEN "ErrSurface"
             ELSE IF backend = "font" THEN "PanicFont"
             ELSE IF "IB" \notin Directions \/ "OB" \notin Directions
                  THEN "PanicBucket"
             ELSE "none"
    /\ pc' = IF result' = "none" THEN "header" ELSE "respond"
    /\ UNCHANGED << feed, journeys_i_care_about,
                    directions_to_lines_destinations_to_journeys, column,
                    pending, cur, idx, times_str, listed, y, canvas, clock, now,
                    response, prev >>

\* the header band, its titles and the line under it
DrawHeader ==
    /\ pc = "header"
    /\ canvas' = [ canvas EXCEPT
                     !.header = Some([ top |-> 0, bottom |-> HeaderHeight,
                                       right |-> Width, line_y |-> HeaderHeight ]) ]
    /\ column' = "IB"
    /\ pc' = "column"
    /\ UNCHANGED << feed, journeys_i_care_about,
                    directions_to_lines_destinations_to_journeys, pending, cur,
                    idx, times_str, listed, y, clock, now, result, response,
                    prev >>

\* draw_times is called for a column: let mut y = 60.0
BeginColumn ==
    /\ pc = "column"
    /\ y' = FirstBaseline
    /\ pending' = KeysOf(column)
    /\ pc' = "row"
    /\ UNCHANGED << feed, journeys_i_care_about,
                    directions_to_lines_destinations_to_journeys, column, cur,
                    idx, times_str, listed, canvas, clock, now, result,
                    response, prev >>

\* the map iterator yields the next key, in the order of the hash map
NextRow ==
    /\ pc = "row"
    /\ \E k \in pending :
          /\ cur' = Some(k)
          /\ pending' = pending \ { k }
    /\ idx' = 1
    /\ times_str' = << >>
    /\ listed' = << >>
    /\ pc' = "journey"
    /\ UNCHANGED << feed, journeys_i_care_about,
                    directions_to_lines_destinations_to_journeys, column, y,
                    canvas, clock, now, result, response, prev >>

\* if time < Utc::now() { continue; }
Expired(time, t) == time < t

\* journeys[..journeys.len().min(3)]
SliceLen(journeys) == IF Len(journeys) < Limit THEN Len(journeys) ELSE Limit

\* one pass of the loop over the first journeys of the row
DrawJourney ==
    /\ pc = "journey"
    /\ idx <= SliceLen(groups[cur[1]])
    /\ LET eta == groups[cur[1]][idx].expected_arrival_time IN
       IF eta = None \/ ~ParseOk(eta[1])
       THEN UNCHANGED << times_str, listed, clock >>
       ELSE LET time == Parse(eta[1]) IN
            \E d1 \in Ticks :
               IF Expired(time, clock + d1)
               THEN /\ clock' = clock + d1
                    /\ UNCHANGED << times_str, listed >>
               ELSE \E d2 \in { d \in { 0, TickLen } : clock + d1 + d <= MaxClock } :
                       /\ clock' = clock + d1 + d2
                       /\ times_str' = times_str
                             \o Decimal(NumMinutes(time - (clock + d1 + d2)))
                             \o Separator
                       /\ listed' = Append(listed,
                             [ time |-> time, tested_at |-> clock + d1,
                               minutes |-> NumMinutes(time - (clock + d1 + d2)) ])
    /\ idx' = idx + 1
    /\ UNCHANGED << pc, feed, journeys_i_care_about,
                    directions_to_lines_destinations_to_journeys, column,
                    pending, cur, y, canvas, now, result, response, prev >>

NextBaselineDouble(v) == v + RowHeight + RowHeight

\* y += 40.0
NextBaseline(v) == v + RowHeight

\* the loop is over: trim the separator, add the unit, draw text and divider
FinishRow ==
    /\ pc = "journey"
    /\ idx > SliceLen(groups[cur[1]])
    /\ LET str == Pop(Pop(times_str)) \o Suffix IN
       /\ times_str' = str
       /\ canvas' = [ canvas EXCEPT ![column] = Append(@,
                        [ key |-> cur[1], y |-> y, divider_y |-> y + DividerDrop,
                          x1 |-> IF column = "IB" THEN 0 ELSE Midpoint,
                          x2 |-> IF column = "IB" THEN Midpoint ELSE Width,
                          times_str |-> str, listed |-> listed ]) ]
    /\ y' = NextBaseline(y)
    /\ pc' = "row"
    /\ UNCHANGED << feed, journeys_i_care_about,
                    directions_to_lines_destinations_to_journeys, column,
                    pending, cur, idx, listed, clock, now, result, response,
                    prev >>

\* the iterator is exhausted: the vertical divider and the outbound column
\* after the inbound one, the encoder after the outbound one
EndColumn ==
    /\ pc = "row"
    /\ pending = {}
    /\ IF column = "IB"
       THEN /\ canvas' = [ canvas EXCEPT
                           !.midline = Some([ x |-> Midpoint, top |-> 0,
                                              bottom |-> Height ]) ]
            /\ column' = "OB"
            /\ pc' = "column"
       ELSE /\ pc' = "encode"
            /\ UNCHANGED << canvas, column >>
    /\ UNCHANGED << feed, journeys_i_care_about,
                    directions_to_lines_destinations_to_journeys, pending, cur,
                    idx, times_str, listed, y, clock, now, result, response,
                    prev >>

\* bitmap.as_image().encode(..).ok_or(..)?
Encode ==
    /\ pc = "encode"
    /\ \E ok \in BOOLEAN : result' = IF ok THEN "Ok" ELSE "ErrEncode"
    /\ pc' = "respond"
    /\ UNCHANGED << feed, journeys_i_care_about,
                    directions_to_lines_destinations_to_journeys, column,
                    pending, cur, idx, times_str, listed, y, canvas, clock, now,
                    response, prev >>

RowKeys(col) == [ i \in 1..Len(canvas[col]) |-> canvas[col][i].key ]

\* get_image().await.unwrap(): the bytes with status 200; an Err panics in
\* unwrap, and a panic of draw_image unwinds through the handler.  The
\* future of the request ends, its locals are dropped, the server goes on.
Respond ==
    /\ pc = "respond"
    /\ IF result = "Ok"
       THEN /\ response' = "200"
            /\ prev' = Some([ IB |-> RowKeys("IB"), OB |-> RowKeys("OB") ])
       ELSE /\ response' = "panic"
            /\ prev' = prev
    /\ pc' = "idle"
    /\ journeys_i_care_about' = << >>
    /\ directions_to_lines_destinations_to_journeys' = << >>
    /\ column' = "IB" /\ pending' = {} /\ cur' = None /\ idx' = 1
    /\ times_str' = << >> /\ listed' = << >> /\ y' = 0
    /\ canvas' = EmptyCanvas
    /\ UNCHANGED << feed, clock, now, result >>

Next ==
    \/ Request
    \/ Filter
    \/ Group
    \/ SortGroups
    \/ DrawSetup
    \/ DrawHeader
    \/ BeginColumn
    \/ NextRow
    \/ DrawJourney
    \/ FinishRow
    \/ EndColumn
    \/ Encode
    \/ Respond

Spec == Init /\ [][Next]_vars

SpecRows == InitRows /\ [][Next]_vars

SpecTimes == InitTimes /\ [][Next]_vars

\* ------------------------------------------------------------ properties
\* the buckets are filled (and not yet dropped with the request)
Grouped == pc \in { "sort", "setup", "header", "column", "row", "journey", "encode" }

\* the buckets are sorted
Sorted == pc \in { "setup", "header", "column", "row", "journey", "encode" }

Count(s, r) == Cardinality({ i \in 1..Len(s) : s[i] = r })

RECURSIVE SumOver(_, _, _)
SumOver(f, ks, r) ==
    IF ks = {} THEN 0
    ELSE LET k == CHOOSE x \in ks : TRUE
         IN Count(f[k], r) + SumOver(f, ks \ { k }, r)

\* watched stop, and line, direction and destination present
Complete(r) ==
    /\ r.stop_point_ref \in WatchedStops
    /\ r.line_ref # None
    /\ r.direction_ref # None
    /\ r.destination_display # None

Columns == { "IB", "OB" }

\* C1: a record of the feed is in a (direction, line, destination) group if
\* and only if its stop is watched and its line, direction and destination
\* are present: then it is in the group of its own key, as often as it is in
\* the feed; otherwise it is in no group; and every row drawn is a group.
C1_GroupedIffComplete ==
    Grouped =>
       /\ \A i \in 1..Len(feed) :
            LET r == feed[i] IN
            /\ SumOver(groups, DOMAIN groups, r)
                 = IF Complete(r) THEN Count(feed, r) ELSE 0
            /\ Complete(r) =>
                 /\ KeyOf(r) \in DOMAIN groups
                 /\ Count(groups[KeyOf(r)], r) = Count(feed, r)
       /\ \A k \in DOMAIN groups : \A n \in 1..Len(groups[k]) :
            Count(feed, groups[k][n]) > 0
       /\ \A c \in Columns : \A n \in 1..Len(canvas[c]) :
            canvas[c][n].key \in DOMAIN groups

\* a feed with a complete record and an incomplete one has been grouped
C1_Witness ==
    /\ Grouped
    /\ DOMAIN groups # {}
    /\ \E i, j \in 1..Len(feed) : Complete(feed[i]) /\ ~Complete(feed[j])

\* the arrival of journey j is listable at instant t
Eligible(j, t) ==
    /\ j.expected_arrival_time # None
    /\ ParseOk(j.expected_arrival_time[1])
    /\ Parse(j.expected_arrival_time[1]) > t

\* the eligible arrival times of the group of a row, in the group's order
EligibleTimes(row) ==
    LET e == SelectSeq(groups[row.key], LAMBDA j : Eligible(j, now))
    IN [ i \in 1..Len(e) |-> Parse(e[i].expected_arrival_time[1]) ]

FirstN(s, n) == SubSeq(s, 1, IF Len(s) < n THEN Len(s) ELSE n)

\* C2: the countdown of a row lists at most 3 arrivals, each strictly later
\* than the instant it was tested against, in ascending order of time.
C2_ListedFutureAscending ==
    \A c \in Columns : \A n \in 1..Len(canvas[c]) :
       LET l == canvas[c][n].listed IN
       /\ Len(l) <= 3
       /\ \A i \in 1..Len(l) : l[i].time > l[i].tested_at
       /\ \A i, j \in 1..Len(l) : i < j => l[i].time <= l[j].time

\* the placeholder of a row without upcoming arrivals
Placeholder ==
    << "n", "o", " ", "u", "p", "c", "o", "m", "i", "n", "g", " ",
       "a", "r", "r", "i", "v", "a", "l", "s" >>

\* C3: a row whose group has no eligible arrival shows the placeholder, not
\* the bare unit suffix nor a string that begins or ends with the separator.
C3_PlaceholderWhenNoneEligible ==
    \A c \in Columns : \A n \in 1..Len(canvas[c]) :
       LET row == canvas[c][n] IN
       EligibleTimes(row) = << >> =>
          /\ row.times_str = Placeholder
          /\ row.times_str # Suffix

\* C4: a request whose data lacks the inbound or the outbound bucket, and in
\* which the backend does not fail, is rendered, with no row in that column.
C4_MissingBucketRenders ==
    (pc = "respond" /\ result \notin { "ErrFetch", "ErrSurface", "ErrEncode", "PanicFont" })
       => /\ result = "Ok"
          /\ \A c \in Columns : c \notin Directions => canvas[c] = << >>

\* C5: two images served for the same records (in any order of the feed)
\* list the same keys of a column in the same row order.
C5_RowOrderFixed ==
    (pc = "respond" /\ result = "Ok" /\ prev # None) =>
       \A c \in Columns :
          { prev[1][c][i] : i \in 1..Len(prev[1][c]) }
                = { RowKeys(c)[i] : i \in 1..Len(RowKeys(c)) }
             => prev[1][c] = RowKeys(c)

Missing(j) == j.expected_arrival_time = None

Known(j) ==
    j.expected_arrival_time # None /\ ParseOk(j.expected_arrival_time[1])

\* C6: after the sort every group is ascending by arrival time, a record
\* without a time stands behind every record with one, and the records
\* without a time keep the order they had in the feed.
C6_SortedMissingLast ==
    Sorted =>
       \A k \in DOMAIN groups :
          LET g == groups[k] IN
          /\ \A i, j \in 1..Len(g) :
               i < j =>
                  /\ ~(Missing(g[i]) /\ Known(g[j]))
                  /\ (Known(g[i]) /\ Known(g[j])) =>
                        Parse(g[i].expected_arrival_time[1])
                           <= Parse(g[j].expected_arrival_time[1])
          /\ SelectSeq(g, Missing)
               = SelectSeq(GroupBy(journeys_i_care_about)[k], Missing)

\* no arrival of the group is due exactly at now
NoneDueNow(g) ==
    \A i \in 1..Len(g) :
       Known(g[i]) => Parse(g[i].expected_arrival_time[1]) # now

\* C7: a row of a group with k eligible arrivals lists min(3, k) arrivals,
\* the earliest eligible ones, whatever stands before them in the group
\* (stated for the requests during which the clock stands still and for the
\* groups without an arrival due exactly at now, where "in the future" is
\* the same at every read of the clock).
C7_LimitAfterSkipping ==
    \A c \in Columns : \A n \in 1..Len(canvas[c]) :
       LET row == canvas[c][n]
           want == FirstN(EligibleTimes(row), 3)
       IN (clock = now /\ NoneDueNow(groups[row.key])) =>
             [ i \in 1..Len(row.listed) |-> row.listed[i].time ] = want

RECURSIVE JoinMinutes(_)
JoinMinutes(ms) ==
    IF ms = << >> THEN << >>
    ELSE IF Len(ms) = 1 THEN Decimal(ms[1])
    ELSE Decimal(ms[1]) \o Separator \o JoinMinutes(Tail(ms))

\* floor((arrival - now) / 1 minute)
FloorMinutes(secs) == secs \div 60

\* C8: a row of a group with an eligible arrival shows the whole minutes of
\* its listed arrivals, counted from the one now of the request, joined by
\* ", " and followed by " min"; no value shown is negative.
C8_CountdownString ==
    \A c \in Columns : \A n \in 1..Len(canvas[c]) :
       LET row == canvas[c][n]
           want == FirstN(EligibleTimes(row), 3)
       IN want # << >> =>
            /\ row.times_str
                 = JoinMinutes([ i \in 1..Len(want) |-> FloorMinutes(want[i] - now) ])
                      \o Suffix
            /\ \A i \in 1..Len(row.listed) : row.listed[i].minutes >= 0

\* C9: a request in which the surface, the font or the encoder fails is
\* answered with a server error; it neither panics nor goes unanswered.
C9_BackendFailureIsError ==
    /\ result # "PanicFont"
    /\ (pc = "idle" /\ result \in { "ErrSurface", "ErrEncode", "PanicFont" })
          => response = "500"

====
